---------------------------- MODULE Spec2Model ----------------------------
(***************************************************************************)
(* Model of the Selcom payment-gateway integration:                        *)
(*   src/auth.py  SelcomClient: request signer and transport client        *)
(*   src/main.py  startup configuration check, create-order routes and     *)
(*                the payment-status webhook                               *)
(*                                                                         *)
(* Strings are sequences of one-character strings, so that sorting,        *)
(* joining, splitting and prefix tests are computed as Python computes     *)
(* them.  HMAC-SHA256 and base64 are modelled as injective constructors.   *)
(***************************************************************************)
EXTENDS Integers, Sequences, FiniteSets, TLC

VARIABLES
    \* ---- signer (src/auth.py) ----
    clock,      \* the wall clock datetime.now() reads
    last,       \* the most recent call of _generate_selcom_headers, or NoCall
    \* ---- transport client (src/auth.py) ----
    self,       \* the SelcomClient object: api_key, api_secret, base_url
    ctor,       \* the arguments the SelcomClient was constructed with
    task,       \* the concurrent post/get calls, one record per task
    \* ---- create-order routes (src/main.py) ----
    route,      \* the business request being handled
    \* ---- webhook (src/main.py) ----
    hook,       \* the webhook request being handled
    \* ---- startup (src/main.py) ----
    boot        \* module import of main.py: environment, position, client

vars == <<clock, last, self, ctor, task, route, hook, boot>>

None == "None"

-----------------------------------------------------------------------------
(* Strings                                                                 *)

\* Unicode code points of the characters the model uses (Python compares
\* str values code point by code point).
Ord(c) ==
    CASE c = " " -> 32
      [] c = "&" -> 38
      [] c = "+" -> 43
      [] c = "," -> 44
      [] c = "0" -> 48
      [] c = "1" -> 49
      [] c = "2" -> 50
      [] c = "3" -> 51
      [] c = "4" -> 52
      [] c = "5" -> 53
      [] c = "6" -> 54
      [] c = "7" -> 55
      [] c = "8" -> 56
      [] c = "9" -> 57
      [] c = ":" -> 58
      [] c = "=" -> 61
      [] c = "B" -> 66
      [] c = "a" -> 97
      [] c = "b" -> 98
      [] c = "e" -> 101
      [] c = "r" -> 114
      [] c = "s" -> 115
      [] c = "t" -> 116
      [] c = "x" -> 120

\* s < t for Python str: lexicographic on code points, a proper prefix first.
RECURSIVE StrLess(_, _)
StrLess(s, t) ==
    IF t = <<>> THEN FALSE
    ELSE IF s = <<>> THEN TRUE
    ELSE IF Head(s) = Head(t) THEN StrLess(Tail(s), Tail(t))
    ELSE Ord(Head(s)) < Ord(Head(t))

\* sep.join(parts)
RECURSIVE Join(_, _)
Join(parts, sep) ==
    IF parts = <<>> THEN <<>>
    ELSE IF Len(parts) = 1 THEN parts[1]
    ELSE parts[1] \o sep \o Join(Tail(parts), sep)

\* s.split(sep) for a one-character sep: the list of the pieces between the
\* separators ("a  b".split(" ") is ["a", "", "b"]; "".split(" ") is [""]).
RECURSIVE SplitFrom(_, _, _)
SplitFrom(s, sep, piece) ==
    IF s = <<>> THEN <<piece>>
    ELSE IF Head(s) = sep THEN <<piece>> \o SplitFrom(Tail(s), sep, <<>>)
    ELSE SplitFrom(Tail(s), sep, Append(piece, Head(s)))

Split(s, sep) == SplitFrom(s, sep, <<>>)

\* s.startswith(prefix)
StartsWith(s, prefix) ==
    /\ Len(s) >= Len(prefix)
    /\ SubSeq(s, 1, Len(prefix)) = prefix

Digit(n) == <<"0", "1", "2", "3", "4", "5", "6", "7", "8", "9">>[n + 1]

\* str(n) for an int n >= 0
RECURSIVE IntToStr(_)
IntToStr(n) ==
    IF n < 10 THEN <<Digit(n)>>
    ELSE IntToStr(n \div 10) \o <<Digit(n % 10)>>

-----------------------------------------------------------------------------
(* Payloads: Python dicts, kept as the sequence of their (key, value)      *)
(* items in insertion order.  A value is a str or an int.                  *)

IntVal(n) == [t |-> "int", n |-> n]
StrVal(s) == [t |-> "str", s |-> s]

\* f"{value}": the str() of a payload value
Format(value) == IF value.t = "int" THEN IntToStr(value.n) ELSE value.s

\* data.keys(), in insertion order
DictKeys(data) == [i \in 1..Len(data) |-> data[i][1]]

\* data[key]
DictGet(data, key) ==
    data[CHOOSE i \in 1..Len(data) : data[i][1] = key][2]

\* set(data.keys())
KeySet(data) == {data[i][1] : i \in 1..Len(data)}

\* The payloads the callers build: every dict over Keys and Values, in every
\* insertion order.
Keys == {<<"a">>, <<"b">>, <<"a", "=">>}

Values ==
    {IntVal(1), StrVal(<<"1">>), StrVal(<<"=", "1">>),
     StrVal(<<"1", "&", "b", "=", "1">>)}

DictsOfSize(n) ==
    {d \in [1..n -> Keys \X Values] :
        \A i, j \in 1..n : d[i][1] = d[j][1] => i = j}

Payloads == UNION {DictsOfSize(n) : n \in 0..Cardinality(Keys)}

-----------------------------------------------------------------------------
(* Request Signer: SelcomClient._generate_selcom_headers                   *)

MaxClock == 1

\* HMAC-SHA256 and base64: injective, not computed.
Hmac(key, msg) == <<"hmac-sha256", key, msg>>
B64(bytes) == <<"b64", bytes>>

\* A timestamp cut to a coarser unit than the clock's.
IsoFormatCoarse(now) ==
    IntToStr(now \div 2) \o <<"+", "0", "0", ":", "0", "0">>

\* datetime.isoformat() of the UTC instant `now`, a count of microseconds:
\* distinct instants give distinct strings, all ending in the UTC offset.
IsoFormat(now) == IntToStr(now) \o <<"+", "0", "0", ":", "0", "0">>

\* sorted(): a stable insertion of each key in turn
RECURSIVE Insert(_, _)
Insert(sorted, key) ==
    IF sorted = <<>> THEN <<key>>
    ELSE IF StrLess(key, Head(sorted)) THEN <<key>> \o sorted
    ELSE <<Head(sorted)>> \o Insert(Tail(sorted), key)

RECURSIVE Sorted(_)
Sorted(keys) ==
    IF keys = <<>> THEN <<>>
    ELSE Insert(Sorted(SubSeq(keys, 1, Len(keys) - 1)), keys[Len(keys)])

\* A signer that forgets to sort: the keys in insertion order.
UnsortedFieldsList(data) == DictKeys(data)

\* signed_fields_list = sorted(data.keys())
SignedFieldsList(data) == Sorted(DictKeys(data))

\* signed_fields_str = ",".join(signed_fields_list)
SignedFieldsStr(fields) == Join(fields, <<",">>)

\* A signer that signs the field names only.
KeyOnlyPart(data, key) == key \o <<"=">>

\* f"{key}={data[key]}"
MessagePart(data, key) == key \o <<"=">> \o Format(DictGet(data, key))

TimestampEq == <<"t", "i", "m", "e", "s", "t", "a", "m", "p", "=">>

\* A signer that leaves the timestamp out of the signed message.
MessagePartsNoTimestamp(data, fields, timestamp) ==
    [i \in 1..Len(fields) |-> MessagePart(data, fields[i])]

\* message_parts: f"timestamp={timestamp}", then one part per signed field
MessageParts(data, fields, timestamp) ==
    <<TimestampEq \o timestamp>> \o
    [i \in 1..Len(fields) |-> MessagePart(data, fields[i])]

\* "&".join(message_parts)
Message(parts) == Join(parts, <<"&">>)

\* _generate_selcom_headers(self, data), called when the clock reads `now`
GenerateSelcomHeaders(cl, data, now) ==
    LET timestamp == IsoFormat(now)
        signed_fields_list == SignedFieldsList(data)
        message == Message(MessageParts(data, signed_fields_list, timestamp))
        digest == Hmac(cl.api_secret, message)
    IN  [Authorization |-> <<"SELCOM ", B64(cl.api_key)>>,
         Timestamp     |-> timestamp,
         DigestMethod  |-> "HS256",
         Digest        |-> B64(digest),
         SignedFields  |-> SignedFieldsStr(signed_fields_list),
         ContentType   |-> "application/json"]

NoCall == [called |-> FALSE]

\* The credential and base URL the client is constructed with.
Credentials ==
    {[api_key |-> <<"a">>, api_secret |-> <<"s">>, base_url |-> "https://gw"]}

\* SelcomClient.__init__
NewClient(args) ==
    [api_key |-> args.api_key, api_secret |-> args.api_secret,
     base_url |-> args.base_url]

\* Time passes.
Tick ==
    /\ clock < MaxClock
    /\ clock' = clock + 1

\* One call of the signer with a payload the caller built.
Sign(data) ==
    last' = [called |-> TRUE, data |-> data, now |-> clock,
             headers |-> GenerateSelcomHeaders(self, data, clock)]


\* The value of a variable that belongs to another part of the program than
\* the one a specification is about.
Unused == [pc |-> "unused"]

-----------------------------------------------------------------------------
(* Specification SpecSign: callers build payloads and call the signer of   *)
(* one client while time passes.                                           *)

InitSign ==
    /\ clock = 0
    /\ last = NoCall
    /\ \E args \in Credentials : ctor = args /\ self = NewClient(args)
    /\ task = Unused
    /\ route = Unused
    /\ hook = Unused
    /\ boot = Unused

SignTick == Tick /\ UNCHANGED <<last, self, ctor, task, route, hook, boot>>

SignCall ==
    /\ \E data \in Payloads : Sign(data)
    /\ UNCHANGED <<clock, self, ctor, task, route, hook, boot>>

NextSign == SignTick \/ SignCall

SpecSign == InitSign /\ [][NextSign]_vars

\* The keys of a payload in ascending order, stated without the sort: the
\* enumeration of the key set in which every key is below the next one.
Ascending(keyset) ==
    CHOOSE s \in [1..Cardinality(keyset) -> keyset] :
        /\ {s[i] : i \in 1..Len(s)} = keyset
        /\ \A i \in 1..(Len(s) - 1) : StrLess(s[i], s[i + 1])

\* Two dicts with the same items, whatever the insertion order.
SameItems(d1, d2) ==
    {d1[i] : i \in 1..Len(d1)} = {d2[i] : i \in 1..Len(d2)}

(* C1: the Signed-Fields header of every signer call is the payload's keys *)
(* in ascending lexicographic order joined with ",", and the signer        *)
(* returns the same Signed-Fields for every insertion order of the same    *)
(* items.                                                                  *)
C1_SignedFieldsSorted ==
    last.called =>
        /\ last.headers.SignedFields =
               Join(Ascending(KeySet(last.data)), <<",">>)
        /\ \A other \in Payloads :
               SameItems(other, last.data) =>
                   GenerateSelcomHeaders(self, other, last.now).SignedFields
                       = last.headers.SignedFields

\* A signed payload of three keys inserted in descending order.
C1_Witness ==
    /\ last.called
    /\ Len(last.data) = 3
    /\ StrLess(last.data[3][1], last.data[2][1])
    /\ StrLess(last.data[2][1], last.data[1][1])

\* The "<key>=<value>" parts of a payload in ascending key order.
FieldParts(data) ==
    LET ks == Ascending(KeySet(data))
    IN  [i \in 1..Len(ks) |-> ks[i] \o <<"=">> \o Format(DictGet(data, ks[i]))]

\* The digest a verifier recomputes from the secret, the returned Timestamp
\* header and a canonical message.
DigestOf(secret, message) == B64(Hmac(secret, message))

(* C2 as stated: the Digest is base64(HMAC(secret, M)) with                *)
(* M = "timestamp=" + Timestamp + "&" + the "&"-join of the key=value      *)
(* parts in Signed-Fields order, for every payload.                        *)
C2_DigestAsStated ==
    last.called =>
        last.headers.Digest =
            DigestOf(self.api_secret,
                     TimestampEq \o last.headers.Timestamp \o <<"&">>
                         \o Join(FieldParts(last.data), <<"&">>))

(* C2 amended: the Digest is base64(HMAC(secret, M)) where M is the        *)
(* "&"-join of "timestamp=" + Timestamp followed by the key=value parts in *)
(* ascending key order, Timestamp being the returned header: for an empty  *)
(* payload M is "timestamp=" + Timestamp with no "&" after it.             *)
C2_DigestOverJoinedParts ==
    last.called =>
        last.headers.Digest =
            DigestOf(self.api_secret,
                     Join(<<TimestampEq \o last.headers.Timestamp>>
                              \o FieldParts(last.data), <<"&">>))

\* A signed payload of two fields, and (before it) time has passed.
C2_Witness ==
    /\ last.called
    /\ Len(last.data) = 2
    /\ last.now > 0

\* The payloads differ in their key set or in the value of some key.
Differ(d1, d2) ==
    \/ KeySet(d1) # KeySet(d2)
    \/ \E k \in KeySet(d1) \cap KeySet(d2) : DictGet(d1, k) # DictGet(d2, k)

(* C3 as stated: with the secret and the timestamp fixed, a payload that   *)
(* differs from the signed one in its key set or in a value gets a         *)
(* different Digest, also when values contain "&" or "=".                  *)
C3_DigestInjective ==
    last.called =>
        \A other \in Payloads :
            Differ(last.data, other) =>
                GenerateSelcomHeaders(self, other, last.now).Digest
                    # last.headers.Digest

HasChar(s, c) == \E i \in 1..Len(s) : s[i] = c

\* No key holds "&" or "=" and no formatted value holds "&".
Unambiguous(data) ==
    \A i \in 1..Len(data) :
        /\ ~HasChar(data[i][1], "&")
        /\ ~HasChar(data[i][1], "=")
        /\ ~HasChar(Format(data[i][2]), "&")

\* The payloads differ in their key set or in the string form of a value.
DifferAsText(d1, d2) ==
    \/ KeySet(d1) # KeySet(d2)
    \/ \E k \in KeySet(d1) \cap KeySet(d2) :
           Format(DictGet(d1, k)) # Format(DictGet(d2, k))

(* C3 amended: with the secret and the timestamp fixed, two payloads whose *)
(* keys hold neither "&" nor "=" and whose formatted values hold no "&"    *)
(* get different Digests whenever they differ in their key set or in the   *)
(* string form of the value of some key.                                   *)
C3_DigestInjectiveUnambiguous ==
    (last.called /\ Unambiguous(last.data)) =>
        \A other \in Payloads :
            (Unambiguous(other) /\ DifferAsText(last.data, other)) =>
                GenerateSelcomHeaders(self, other, last.now).Digest
                    # last.headers.Digest

\* A signed unambiguous payload of two fields one of whose values holds "=".
C3_Witness ==
    /\ last.called
    /\ Unambiguous(last.data)
    /\ Len(last.data) = 2
    /\ \E i \in 1..2 : HasChar(Format(last.data[i][2]), "=")

-----------------------------------------------------------------------------
(* Transport Client: SelcomClient.post and SelcomClient.get, called by     *)
(* concurrent tasks on one client.  Each call signs (line 37/43), is       *)
(* suspended while the HTTP client opens and the request is in flight      *)
(* (lines 38-39/44-45), and returns the response (line 40/46).             *)

Tasks == {"t1", "t2"}

\* The payloads the callers of post and get build, each call its own.
CallPayloads ==
    {<< >>,
     << <<(<<"a">>), IntVal(1)>> >>,
     << <<(<<"b">>), StrVal(<<"1">>)>>, <<(<<"a">>), IntVal(1)>> >>}

\* The HTTP status codes the gateway answers with.
Statuses == {200, 404, 500}

Idle == [pc |-> "idle"]

\* headers = self._generate_selcom_headers(data, method=...): the call's
\* locals after signing, at the suspension point of `async with`.
Signed(method, data) ==
    [pc |-> "signed", method |-> method, data |-> data, now |-> clock,
     headers |-> GenerateSelcomHeaders(self, data, clock)]

\* async def post(self, path, data)
Post(t, data) ==
    /\ task[t].pc = "idle"
    /\ task' = [task EXCEPT ![t] = Signed("POST", data)]
    /\ UNCHANGED <<clock, self, ctor>>

\* async def get(self, path, params)
Get(t, params) ==
    /\ task[t].pc = "idle"
    /\ task' = [task EXCEPT ![t] = Signed("GET", params)]
    /\ UNCHANGED <<clock, self, ctor>>

\* A client that stamps the Timestamp header again when it sends.
RestampedHeaders(t) ==
    [task[t].headers EXCEPT !.Timestamp = IsoFormat(clock)]

\* The `headers` local handed to client.post / client.get.
RequestHeaders(t) == task[t].headers

\* client.post(path, json=data, headers=headers) /
\* client.get(path, params=params, headers=headers) on
\* httpx.AsyncClient(base_url=self.base_url): the request goes out.
Send(t) ==
    /\ task[t].pc = "signed"
    /\ task' = [task EXCEPT ![t] =
            [pc |-> "sent", method |-> task[t].method, data |-> task[t].data,
             now |-> task[t].now, headers |-> task[t].headers,
             request |-> [method   |-> task[t].method,
                          base_url |-> self.base_url,
                          payload  |-> task[t].data,
                          carried  |-> IF task[t].method = "POST"
                                       THEN "json" ELSE "params",
                          headers  |-> RequestHeaders(t)]]]
    /\ UNCHANGED <<clock, self, ctor>>

\* The gateway answers with an HTTP status: `return response`, whatever the
\* status (httpx raises for no status; raise_for_status is not called).
Respond(t, status) ==
    /\ task[t].pc = "sent"
    /\ task' = [task EXCEPT ![t] =
            [pc |-> "returned", method |-> task[t].method,
             data |-> task[t].data, now |-> task[t].now,
             headers |-> task[t].headers, request |-> task[t].request,
             response |-> [status_code |-> status]]]
    /\ UNCHANGED <<clock, self, ctor>>

\* No answer arrives (connection failure, timeout, TLS failure): the await
\* raises httpx's exception, which post/get do not catch.
Fail(t) ==
    /\ task[t].pc = "sent"
    /\ task' = [task EXCEPT ![t] =
            [pc |-> "raised", method |-> task[t].method,
             data |-> task[t].data, now |-> task[t].now,
             headers |-> task[t].headers, request |-> task[t].request,
             error |-> "httpx.TransportError"]]
    /\ UNCHANGED <<clock, self, ctor>>

\* The caller has the result; the call's payload and headers are dropped.
Finish(t) ==
    /\ task[t].pc \in {"returned", "raised"}
    /\ task' = [task EXCEPT ![t] = Idle]
    /\ UNCHANGED <<clock, self, ctor>>

InitTransport ==
    /\ clock = 0
    /\ last = NoCall
    /\ \E args \in Credentials : ctor = args /\ self = NewClient(args)
    /\ task = [t \in Tasks |-> Idle]
    /\ route = Unused
    /\ hook = Unused
    /\ boot = Unused

TransportTick == Tick /\ UNCHANGED <<last, self, ctor, task, route, hook, boot>>

TransportPost ==
    /\ \E t \in Tasks, data \in CallPayloads : Post(t, data)
    /\ UNCHANGED <<last, route, hook, boot>>

TransportGet ==
    /\ \E t \in Tasks, params \in CallPayloads : Get(t, params)
    /\ UNCHANGED <<last, route, hook, boot>>

TransportSend ==
    /\ \E t \in Tasks : Send(t)
    /\ UNCHANGED <<last, route, hook, boot>>

TransportRespond ==
    /\ \E t \in Tasks, status \in Statuses : Respond(t, status)
    /\ UNCHANGED <<last, route, hook, boot>>

TransportFail ==
    /\ \E t \in Tasks : Fail(t)
    /\ UNCHANGED <<last, route, hook, boot>>

TransportFinish ==
    /\ \E t \in Tasks : Finish(t)
    /\ UNCHANGED <<last, route, hook, boot>>

NextTransport ==
    \/ TransportTick
    \/ TransportPost
    \/ TransportGet
    \/ TransportSend
    \/ TransportRespond
    \/ TransportFail
    \/ TransportFinish

SpecTransport == InitTransport /\ [][NextTransport]_vars

\* The task is inside a call that has signed its payload.
InCall(t) == task[t].pc # "idle"

(* C4 as stated: any two signer calls made with an identical payload and   *)
(* credential return different Timestamp headers and different Digests.    *)
C4_AlwaysFresh ==
    \A t1, t2 \in Tasks :
        (t1 # t2 /\ InCall(t1) /\ InCall(t2) /\ task[t1].data = task[t2].data)
            => /\ task[t1].headers.Timestamp # task[t2].headers.Timestamp
               /\ task[t1].headers.Digest # task[t2].headers.Digest

(* C4 amended: every signer call stamps the clock reading at the time of   *)
(* the call; two calls with an identical payload and credential return     *)
(* different Timestamps and different Digests when their clock readings    *)
(* differ, and the same Timestamp and Digest when both read the same       *)
(* instant.                                                                *)
C4_FreshPerClockReading ==
    \A t1, t2 \in Tasks :
        (InCall(t1) /\ InCall(t2) /\ task[t1].data = task[t2].data)
            => /\ task[t1].now <= clock
               /\ task[t1].headers.Timestamp = IsoFormat(task[t1].now)
               /\ (task[t1].now = task[t2].now)
                      <=> (task[t1].headers.Timestamp
                               = task[t2].headers.Timestamp)
               /\ (task[t1].now = task[t2].now)
                      <=> (task[t1].headers.Digest = task[t2].headers.Digest)

\* Two calls in progress with the same payload, signed at different instants.
C4_Witness ==
    /\ InCall("t1") /\ InCall("t2")
    /\ task["t1"].data = task["t2"].data
    /\ task["t1"].now # task["t2"].now

Is2xx(status) == 200 <= status /\ status <= 299

(* C6: a call of post or get returns a response normally only when the     *)
(* HTTP status is 2xx; a non-2xx status surfaces as a transport error.     *)
C6_Non2xxIsTransportError ==
    \A t \in Tasks :
        task[t].pc = "returned" => Is2xx(task[t].response.status_code)

\* The task's request has gone out.
HasSent(t) == task[t].pc \in {"sent", "returned", "raised"}

-----------------------------------------------------------------------------
(* Startup: the module-level code of main.py (lines 19-44, then the route  *)
(* definitions), run once when the module is imported by the server.       *)

\* Optional[str]: None, or a str
NoneVal == [some |-> FALSE]
Some(s) == [some |-> TRUE, v |-> s]

\* bool(x) of an Optional[str]: None and "" are falsy
Truthy(x) == x.some /\ x.v # <<>>

EnvNames ==
    {"SELCOM_API_KEY", "SELCOM_API_SECRET", "SELCOM_BASE_URL",
     "SELCOM_VENDOR_ID", "SELCOM_VENDOR_PIN", "C2B_BEARER_TOKEN"}

\* What the process environment (and .env) may hold for one name: nothing,
\* the empty string, or a value.
EnvValues == {NoneVal, Some(<<>>), Some(<<"t">>)}

NotLoaded == [n \in EnvNames |-> NoneVal]

\* API_KEY = os.getenv("SELCOM_API_KEY") ... C2B_BEARER_TOKEN = os.getenv(...)
LoadEnv ==
    /\ boot.pc = "import"
    /\ boot' = [boot EXCEPT !.pc = "loaded", !.config = boot.environ]

\* A check that leaves the webhook token out of the list.
RequiredWithoutToken(config) ==
    <<config["SELCOM_API_KEY"], config["SELCOM_API_SECRET"],
      config["SELCOM_BASE_URL"], config["SELCOM_VENDOR_ID"],
      config["SELCOM_VENDOR_PIN"]>>

\* [API_KEY, API_SECRET, BASE_URL, VENDOR_ID, VENDOR_PIN, C2B_BEARER_TOKEN]
Required(config) ==
    <<config["SELCOM_API_KEY"], config["SELCOM_API_SECRET"],
      config["SELCOM_BASE_URL"], config["SELCOM_VENDOR_ID"],
      config["SELCOM_VENDOR_PIN"], config["C2B_BEARER_TOKEN"]>>

\* all(values)
All(values) == \A i \in 1..Len(values) : Truthy(values[i])

\* if not all([...]): raise ValueError(...)
CheckConfig ==
    /\ boot.pc = "loaded"
    /\ boot' = [boot EXCEPT !.pc = IF ~All(Required(boot.config))
                                    THEN "failed" ELSE "checked"]

\* client = apigwClient.Client(baseUrl=BASE_URL, apiKey=API_KEY, apiSecret=API_SECRET)
CreateClient ==
    /\ boot.pc = "checked"
    /\ boot' = [boot EXCEPT
            !.pc = "client",
            !.client = [exists    |-> TRUE,
                        baseUrl   |-> boot.config["SELCOM_BASE_URL"],
                        apiKey    |-> boot.config["SELCOM_API_KEY"],
                        apiSecret |-> boot.config["SELCOM_API_SECRET"]]]

\* app = FastAPI(...) and the @app route definitions: the import completes
\* and the server can route requests to the application.
CreateApp ==
    /\ boot.pc = "client"
    /\ boot' = [boot EXCEPT !.pc = "serving", !.app = TRUE]

\* The server hands a request to a route of the application.
Serve ==
    /\ boot.pc = "serving"
    /\ boot.app
    /\ boot' = [boot EXCEPT !.served = TRUE]

NoClient == [exists |-> FALSE]

InitStartup ==
    /\ clock = 0
    /\ last = NoCall
    /\ self = Unused
    /\ ctor = Unused
    /\ task = Unused
    /\ route = Unused
    /\ hook = Unused
    /\ \E environ \in [EnvNames -> EnvValues] :
          boot = [pc |-> "import", environ |-> environ, config |-> NotLoaded,
                  client |-> NoClient, app |-> FALSE, served |-> FALSE]

StartupRest == UNCHANGED <<clock, last, self, ctor, task, route, hook>>

StartupLoadEnv == LoadEnv /\ StartupRest

StartupCheckConfig == CheckConfig /\ StartupRest

StartupCreateClient == CreateClient /\ StartupRest

StartupCreateApp == CreateApp /\ StartupRest

StartupServe == Serve /\ StartupRest

NextStartup ==
    \/ StartupLoadEnv
    \/ StartupCheckConfig
    \/ StartupCreateClient
    \/ StartupCreateApp
    \/ StartupServe

SpecStartup == InitStartup /\ [][NextStartup]_vars

\* Every one of the six values is set to a non-empty string.
AllPresent(environ) == \A n \in EnvNames : Truthy(environ[n])

(* C9: if any of the six required configuration values is missing, startup *)
(* fails with an error before the gateway client is created and before any *)
(* route can serve traffic; the gateway client exists, and the application *)
(* serves, only when all six values are present.                           *)
C9_MissingConfigIsFatal ==
    /\ (boot.client.exists \/ boot.app \/ boot.served
            \/ boot.pc \in {"checked", "client", "serving"})
          => AllPresent(boot.environ)
    /\ (~AllPresent(boot.environ) /\ boot.pc \notin {"import", "loaded"})
          => /\ boot.pc = "failed"
             /\ ~boot.client.exists
             /\ ~boot.app
             /\ ~boot.served

\* Startup has failed with only the webhook token missing.
C9_Witness ==
    /\ boot.pc = "failed"
    /\ ~Truthy(boot.environ["C2B_BEARER_TOKEN"])
    /\ \A n \in EnvNames \ {"C2B_BEARER_TOKEN"} : Truthy(boot.environ[n])

-----------------------------------------------------------------------------
(* The application once startup has succeeded.                             *)

\* The state main.py's import leaves when every value is set: the globals
\* hold the environment's values, the client and the app exist.
Serving(environ) ==
    [pc |-> "serving", environ |-> environ, config |-> environ,
     client |-> [exists    |-> TRUE,
                 baseUrl   |-> environ["SELCOM_BASE_URL"],
                 apiKey    |-> environ["SELCOM_API_KEY"],
                 apiSecret |-> environ["SELCOM_API_SECRET"]],
     app |-> TRUE, served |-> FALSE]

\* The configured webhook tokens the model runs with.
Tokens == {<<"t">>, <<"t", "x">>, <<"t", " ", "x">>}

EnvWithToken(token) ==
    [n \in EnvNames |->
        IF n = "C2B_BEARER_TOKEN" THEN Some(token) ELSE Some(<<"t">>)]

\* The global C2B_BEARER_TOKEN
C2B_BEARER_TOKEN == boot.config["C2B_BEARER_TOKEN"].v

\* The global VENDOR_ID
VENDOR_ID == boot.config["SELCOM_VENDOR_ID"].v

-----------------------------------------------------------------------------
(* Webhook: POST /webhook/payment-status, guarded by verify_c2b_token.     *)

BearerSp == <<"B", "e", "a", "r", "e", "r", " ">>

\* The Authorization headers a sender may present, for a configured token.
AuthHeaders(token) ==
    {NoneVal}
    \cup {Some(h) : h \in
            {<< >>,
             token,
             <<"B", "e", "a", "r", "e", "r">>,
             BearerSp,
             BearerSp \o token,
             BearerSp \o token \o <<"x">>,
             BearerSp \o token \o <<" ", "x">>,
             BearerSp \o <<" ">> \o token,
             BearerSp \o <<"x">>,
             <<"B", "a", "s", "e", " ">> \o token}}

\* JSON documents: what json.loads returns for a body that parses.
JNull == [kind |-> "null"]
JNumber(n) == [kind |-> "number", n |-> n]
JString(str) == [kind |-> "string", s |-> str]
JArray(items) == [kind |-> "array", items |-> items]
JObject(fields) == [kind |-> "object", fields |-> fields]

\* class WebhookPaymentStatusRequest(BaseModel)
RequiredFields ==
    {"result", "resultcode", "order_id", "transid", "reference",
     "payment_status"}

OptionalFields == {"channel", "amount", "phone"}

PaymentStatuses ==
    {"COMPLETED", "PENDING", "CANCELLED", "USERCANCELLED", "REJECTED",
     "EXPIRED"}

\* A notification as the gateway sends it.
Notification(payment_status) ==
    [f \in RequiredFields \cup {"channel"} |->
        IF f = "payment_status" THEN JString(payment_status)
        ELSE IF f = "resultcode" THEN JString("000")
        ELSE JString("v")]

\* fields without the key f
Without(fields, f) == [g \in (DOMAIN fields) \ {f} |-> fields[g]]

\* fields with fields[f] = value
With(fields, f, value) ==
    [g \in (DOMAIN fields) \cup {f} |-> IF g = f THEN value ELSE fields[g]]

\* The JSON objects a sender may post: well-formed notifications, and
\* objects with a field missing, null or of another type.
PostedObjects ==
    {Notification(ps) : ps \in PaymentStatuses}
    \cup {Without(Notification("COMPLETED"), f) :
              f \in RequiredFields \cup {"channel"}}
    \cup {With(Notification("COMPLETED"), f, JNumber(0)) :
              f \in {"resultcode", "amount"}}
    \cup {With(Notification("COMPLETED"), f, JNull) :
              f \in {"order_id", "amount"}}
    \cup {With(Notification("PENDING"), "extra", JString("v"))}
    \cup {[f \in {} |-> JNull]}

\* The request bodies a sender may post: bytes that are not UTF-8, text
\* that is not JSON (the empty body included), and JSON documents.
Bodies ==
    {[utf8 |-> FALSE]}
    \cup {[utf8 |-> TRUE, json |-> FALSE]}
    \cup {[utf8 |-> TRUE, json |-> TRUE, doc |-> d] :
            d \in {JNull, JNumber(1), JString("v"), JArray(<< >>),
                   JArray(<<JObject(Notification("COMPLETED"))>>)}
                  \cup {JObject(o) : o \in PostedObjects}}

\* The exception a step raises, or none
Raised(exc) == [raised |-> TRUE, exc |-> exc]
Returned(value) == [raised |-> FALSE, value |-> value]

\* json.loads(raw_body.decode('utf-8'))
JsonLoads(body) ==
    IF ~body.utf8 THEN Raised("UnicodeDecodeError")
    ELSE IF ~body.json THEN Raised("JSONDecodeError")
    ELSE Returned(body.doc)

\* pydantic's check of one field of WebhookPaymentStatusRequest: a required
\* field is a str; an optional one is absent, null or a str.
FieldValid(fields, f) ==
    IF f \in RequiredFields
    THEN f \in DOMAIN fields /\ fields[f].kind = "string"
    ELSE f \in DOMAIN fields => fields[f].kind \in {"string", "null"}

\* WebhookPaymentStatusRequest(**payload)
WebhookModel(payload) ==
    IF payload.kind # "object" THEN Raised("TypeError")
    ELSE IF \E f \in RequiredFields \cup OptionalFields :
                ~FieldValid(payload.fields, f)
         THEN Raised("ValidationError")
         ELSE Returned([f \in RequiredFields \cup OptionalFields |->
                           IF f \in DOMAIN payload.fields THEN payload.fields[f]
                           ELSE JNull])

\* verify_c2b_token does not raise: the negation of
\* authorization is None or not authorization.startswith("Bearer ")
\*     or authorization.split(" ")[1] != C2B_BEARER_TOKEN
TokenAccepted(authorization) ==
    /\ authorization.some
    /\ StartsWith(authorization.v, BearerSp)
    /\ Split(authorization.v, " ")[2] = C2B_BEARER_TOKEN

HttpError(status_code, detail) ==
    [kind |-> "HTTPException", status_code |-> status_code, detail |-> detail]

HttpOk(status_code, body) ==
    [kind |-> "response", status_code |-> status_code, body |-> body]

NoHook == [pc |-> "idle"]

\* A request for POST /webhook/payment-status arrives.
WebhookArrives(authorization, body) ==
    /\ hook.pc = "idle"
    /\ hook' = [pc |-> "received", authorization |-> authorization,
                body |-> body, parsed |-> FALSE, processed |-> FALSE]

\* async def verify_c2b_token(authorization): the route's dependency
VerifyC2bToken ==
    /\ hook.pc = "received"
    /\ IF TokenAccepted(hook.authorization)
       THEN hook' = [hook EXCEPT !.pc = "authorized"]
       ELSE hook' = [pc |-> "answered",
                     authorization |-> hook.authorization,
                     body |-> hook.body, parsed |-> FALSE,
                     processed |-> FALSE, authorized |-> FALSE,
                     answer |-> HttpError(401,
                         "Unauthorized: Invalid C2B Bearer Token")]

\* The status the handler answers a body with that JSON cannot parse.
InvalidJsonStatus == 400

\* The status the handler answers any other exception with.
OtherExceptionStatus == 500

\* The try block of selcom_payment_webhook and its two except clauses
WebhookAnswer(body) ==
    LET loaded == JsonLoads(body)
        model == IF loaded.raised THEN loaded ELSE WebhookModel(loaded.value)
    IN  IF ~model.raised
        THEN HttpOk(200, [status |-> "success",
                          message |-> "Webhook received and processed."])
        ELSE IF model.exc = "JSONDecodeError"
        THEN HttpError(InvalidJsonStatus, "Invalid JSON payload.")
        ELSE HttpError(OtherExceptionStatus, "Internal server error")

\* async def selcom_payment_webhook(request, authorization)
SelcomPaymentWebhook ==
    /\ hook.pc = "authorized"
    /\ hook' = [pc |-> "answered", authorization |-> hook.authorization,
                body |-> hook.body,
                parsed |-> TRUE,
                processed |-> WebhookAnswer(hook.body).kind = "response",
                authorized |-> TRUE,
                answer |-> WebhookAnswer(hook.body)]

\* The answer has gone out; the next request can arrive.
WebhookDone ==
    /\ hook.pc = "answered"
    /\ hook' = NoHook

InitWebhook ==
    /\ clock = 0
    /\ last = NoCall
    /\ self = Unused
    /\ ctor = Unused
    /\ task = Unused
    /\ route = Unused
    /\ hook = NoHook
    /\ \E token \in Tokens : boot = Serving(EnvWithToken(token))

WebhookRest == UNCHANGED <<clock, last, self, ctor, task, route, boot>>

HookArrives ==
    /\ \E authorization \in AuthHeaders(C2B_BEARER_TOKEN), body \in Bodies :
          WebhookArrives(authorization, body)
    /\ WebhookRest

HookVerify == VerifyC2bToken /\ WebhookRest

HookHandle == SelcomPaymentWebhook /\ WebhookRest

HookDone == WebhookDone /\ WebhookRest

NextWebhook == HookArrives \/ HookVerify \/ HookHandle \/ HookDone

SpecWebhook == InitWebhook /\ [][NextWebhook]_vars

(* C7: the webhook processes a request only if its Authorization header is *)
(* exactly "Bearer " followed by the configured token; for every other     *)
(* header value the answer is 401 and the body is never parsed or          *)
(* processed.                                                              *)
C7_OnlyExactBearerToken ==
    (hook.pc # "idle"
        /\ hook.authorization # Some(BearerSp \o C2B_BEARER_TOKEN))
      => /\ hook.pc # "authorized"
         /\ ~hook.parsed
         /\ ~hook.processed
         /\ hook.pc = "answered" => hook.answer.status_code = 401

\* The body does not carry a well-formed notification.
Malformed(body) ==
    \/ ~body.utf8
    \/ ~body.json
    \/ body.doc.kind # "object"
    \/ \E f \in RequiredFields \cup OptionalFields :
           ~FieldValid(body.doc.fields, f)

(* C8: an authenticated webhook request whose body is malformed (not valid *)
(* JSON, not a JSON object, or an object missing a required field) is      *)
(* answered with a client error (4xx) and never with a server fault (5xx). *)
C8_MalformedIsClientError ==
    (hook.pc = "answered" /\ hook.authorized /\ Malformed(hook.body))
      => /\ hook.answer.status_code >= 400
         /\ hook.answer.status_code <= 499

-----------------------------------------------------------------------------
(* Business endpoints: POST /checkout/create-order-minimal and             *)
(* POST /checkout/create-order.  Each builds the order payload, calls the  *)
(* gateway through client.postFunc in a worker thread, and answers its     *)
(* caller from the gateway's response.                                     *)

\* A key that model_dump(exclude_unset=True) leaves out
Unset == [set |-> FALSE]
Given(value) == [set |-> TRUE, value |-> value]

\* The validated requests of create-order-minimal: buyer_remarks and
\* merchant_remarks left out, sent as null, or sent as text.
MinimalRequests ==
    [order_id : {"o1"}, amount : {1000},
     buyer_remarks : {Unset, Given(NoneVal), Given(Some("thanks"))},
     merchant_remarks : {Unset, Given(Some("gift"))}]

\* The validated requests of create-order, with their billing block.
FullRequests ==
    [order_id : {"o1"}, amount : {1000}, no_of_items : {1, 2},
     billing : {[firstname |-> "A", city |-> "Dar"]}]

\* order_payload of create_order_minimal_route (lines 212-219)
MinimalPayload(req) ==
    [order_id |-> req.order_id,
     amount |-> req.amount,
     vendor |-> VENDOR_ID,
     buyer_remarks |->
         IF ~req.buyer_remarks.set \/ ~req.buyer_remarks.value.some
         THEN "None" ELSE req.buyer_remarks.value.v,
     merchant_remarks |->
         IF ~req.merchant_remarks.set \/ ~req.merchant_remarks.value.some
         THEN "None" ELSE req.merchant_remarks.value.v]

\* order_payload of create_order_route (lines 251-257): the billing block
\* is popped and flattened into "billing.<key>" entries
FullPayload(req) ==
    [order_id |-> req.order_id,
     amount |-> req.amount,
     no_of_items |-> req.no_of_items,
     vendor |-> VENDOR_ID,
     billing_firstname |-> req.billing.firstname,
     billing_city |-> req.billing.city]

\* A dict key that is absent
Absent == [present |-> FALSE]
Present(value) == [present |-> TRUE, value |-> value]

\* payment_gateway_url values: the base64 of a URL, text that b64decode
\* rejects, the base64 of bytes that are not UTF-8, the empty string.
GatewayUrl == <<"url", "https://pay">>
Base64Of(text) == <<"b64", text>>
UrlValues ==
    {Base64Of(GatewayUrl), <<"not base64">>, Base64Of(<<"not utf-8">>),
     <<"empty">>}

\* The shapes of the "data" member of a gateway response: absent, null,
\* an empty list, or a list whose first entry has or lacks the URL.
DataShapes ==
    {Absent, Present(JNull), Present(JArray(<< >>)),
     Present(JArray(<<[gateway_buyer_uuid |-> "u"]>>))}
    \cup {Present(JArray(<<[gateway_buyer_uuid |-> "u",
                             payment_gateway_url |-> u]>>)) : u \in UrlValues}

\* The result codes and results the gateway answers with.
ResultCodes == {"000", "111", "927", "999", "403", "422", "404"}
Results == {"SUCCESS", "FAIL", "PENDING"}

\* response_data: the decoded JSON body client.postFunc returns
GatewayResponses ==
    [result : {Absent} \cup {Present(r) : r \in Results},
     resultcode : {Present(c) : c \in ResultCodes},
     message : {Absent, Present("gateway message")},
     data : DataShapes]

\* dict.get(key, default)
GetOr(member, default) == IF member.present THEN member.value ELSE default

\* base64.b64decode(payment_gateway_url).decode('utf-8')
DecodeUrl(url) ==
    IF url[1] # "b64" THEN Raised("binascii.Error")
    ELSE IF url[2] = <<"not utf-8">> THEN Raised("UnicodeDecodeError")
    ELSE Returned(url[2])

\* response_data.get("data", [{}])[0].get("payment_gateway_url")
FirstUrl(response_data) ==
    LET data == GetOr(response_data.data, JArray(<<[none |-> TRUE]>>))
    IN  IF data.kind = "null" THEN Raised("TypeError")
        ELSE IF data.items = << >> THEN Raised("IndexError")
        ELSE IF "payment_gateway_url" \in DOMAIN data.items[1]
             THEN Returned(Some(data.items[1].payment_gateway_url))
             ELSE Returned(NoneVal)

\* The SUCCESS branch (lines 224-232 / 262-270): the URL of the first data
\* entry is replaced by its decoding when it decodes
SuccessAnswer(response_data) ==
    LET url == FirstUrl(response_data)
    IN  IF url.raised
        THEN HttpError(500, "Internal server error")
        ELSE IF ~url.value.some \/ url.value.v = <<"empty">>
             THEN HttpOk(200, response_data)
        ELSE LET decoded == DecodeUrl(url.value.v)
             IN  IF decoded.raised THEN HttpOk(200, response_data)
                 ELSE HttpOk(200,
                        [response_data EXCEPT !.data =
                            Present(JArray(<<[response_data.data.value.items[1]
                                EXCEPT !.payment_gateway_url =
                                    decoded.value]>>))])

\* A route whose generic handler catches the HTTPException as well and
\* answers 500.
FailureAnswerSwallowed(response_data) ==
    HttpError(500, "Internal server error")

\* The else branch (lines 234-240 / 272-278)
FailureAnswer(response_data) ==
    LET error_message ==
            GetOr(response_data.message, "Order creation failed at Selcom.")
        resultcode == GetOr(response_data.resultcode, "None")
    IN  HttpError(IF resultcode = "403" THEN 401
                  ELSE IF resultcode = "422" THEN 422
                  ELSE 400,
                  error_message)

\* The try block after client.postFunc has returned response_data
RouteAnswer(response_data) ==
    IF GetOr(response_data.result, "None") = "SUCCESS"
    THEN SuccessAnswer(response_data)
    ELSE FailureAnswer(response_data)

NoRoute == [pc |-> "idle"]

\* create_order_minimal_route up to `await asyncio.to_thread(...)`
CreateOrderMinimalRoute(req) ==
    /\ route.pc = "idle"
    /\ route' = [pc |-> "awaiting", name |-> "create-order-minimal",
                 path |-> "/v1/checkout/create-order-minimal",
                 order_payload |-> MinimalPayload(req)]

\* create_order_route up to `await asyncio.to_thread(...)`
CreateOrderRoute(req) ==
    /\ route.pc = "idle"
    /\ route' = [pc |-> "awaiting", name |-> "create-order",
                 path |-> "/v1/checkout/create-order",
                 order_payload |-> FullPayload(req)]

\* client.postFunc returns the gateway's response and the route answers
GatewayReturns(response_data) ==
    /\ route.pc = "awaiting"
    /\ route' = [pc |-> "answered", name |-> route.name,
                 gateway |-> Returned(response_data),
                 answer |-> RouteAnswer(response_data)]

\* client.postFunc raises (no connection, a body that is not JSON): the
\* generic handler answers 500
GatewayRaises ==
    /\ route.pc = "awaiting"
    /\ route' = [pc |-> "answered", name |-> route.name,
                 gateway |-> Raised("Exception"),
                 answer |-> HttpError(500, "Internal server error")]

\* The answer has gone out; the next request can arrive.
RouteDone ==
    /\ route.pc = "answered"
    /\ route' = NoRoute

InitRoute ==
    /\ clock = 0
    /\ last = NoCall
    /\ self = Unused
    /\ ctor = Unused
    /\ task = Unused
    /\ route = NoRoute
    /\ hook = Unused
    /\ boot = Serving(EnvWithToken(<<"t">>))

RouteRest == UNCHANGED <<clock, last, self, ctor, task, hook, boot>>

RouteMinimal ==
    /\ \E req \in MinimalRequests : CreateOrderMinimalRoute(req)
    /\ RouteRest

RouteFull ==
    /\ \E req \in FullRequests : CreateOrderRoute(req)
    /\ RouteRest

RouteGatewayReturns ==
    /\ \E response_data \in GatewayResponses : GatewayReturns(response_data)
    /\ RouteRest

RouteGatewayRaises == GatewayRaises /\ RouteRest

RouteAnswered == RouteDone /\ RouteRest

NextRoute ==
    \/ RouteMinimal
    \/ RouteFull
    \/ RouteGatewayReturns
    \/ RouteGatewayRaises
    \/ RouteAnswered

SpecRoute == InitRoute /\ [][NextRoute]_vars

\* The classification of a result code the gateway's contract fixes.
Outcome(resultcode) ==
    IF resultcode = "000" THEN "SUCCESS"
    ELSE IF resultcode \in {"111", "927"} THEN "IN_PROGRESS"
    ELSE IF resultcode = "999" THEN "AMBIGUOUS"
    ELSE "FAILED"

(* C5: the outcome a business endpoint surfaces for a gateway response is  *)
(* determined by resultcode: a response with resultcode 111, 927 or 999 is *)
(* never surfaced as a failure (an HTTP error), 999 is never surfaced as a *)
(* success, 000 is never surfaced as a failure and any other code is never *)
(* surfaced as a success.                                                  *)
C5_ClassifiedByResultCode ==
    (route.pc = "answered" /\ ~route.gateway.raised) =>
        LET outcome == Outcome(route.gateway.value.resultcode.value)
            failed == route.answer.kind = "HTTPException"
            succeeded == route.answer.kind = "response"
        IN  /\ outcome \in {"IN_PROGRESS", "AMBIGUOUS"} => ~failed
            /\ outcome = "AMBIGUOUS" => ~succeeded
            /\ outcome = "SUCCESS" => ~failed
            /\ outcome = "FAILED" => ~succeeded

\* The gateway answered, and its result is not "SUCCESS".
GatewayRefused ==
    /\ route.pc = "answered"
    /\ ~route.gateway.raised
    /\ GetOr(route.gateway.value.result, "None") # "SUCCESS"

(* C11: in both create-order routes, whenever the gateway response's       *)
(* result is not "SUCCESS" the caller receives an HTTP error whose status  *)
(* is 401 for resultcode 403, 422 for resultcode 422 and 400 for every     *)
(* other resultcode, with the gateway's message as detail (the route's own *)
(* text when the response has no message); the error is never turned into  *)
(* a 500, and 500 is answered only when the gateway call raised or the     *)
(* handling of a SUCCESS response raised (data null or an empty list).     *)
C11_RefusalStatusByResultCode ==
    /\ GatewayRefused =>
          LET response_data == route.gateway.value
              resultcode == response_data.resultcode.value
          IN  /\ route.answer.kind = "HTTPException"
              /\ route.answer.status_code =
                     (IF resultcode = "403" THEN 401
                      ELSE IF resultcode = "422" THEN 422
                      ELSE 400)
              /\ response_data.message.present
                     => route.answer.detail = response_data.message.value
              /\ ~response_data.message.present
                     => route.answer.detail = "Order creation failed at Selcom."
    /\ (route.pc = "answered" /\ route.answer.status_code = 500) =>
          \/ route.gateway.raised
          \/ /\ GetOr(route.gateway.value.result, "None") = "SUCCESS"
             /\ route.gateway.value.data.present
             /\ \/ route.gateway.value.data.value.kind = "null"
                \/ route.gateway.value.data.value.items = << >>

\* The create-order route has answered 401 for a refusal with resultcode
\* 403 that carries a message.
C11_Witness ==
    /\ GatewayRefused
    /\ route.name = "create-order"
    /\ route.gateway.value.resultcode.value = "403"
    /\ route.gateway.value.message.present
    /\ route.answer.status_code = 401

\* The gateway answered with result "SUCCESS".
GatewayAccepted ==
    /\ route.pc = "answered"
    /\ ~route.gateway.raised
    /\ GetOr(route.gateway.value.result, "None") = "SUCCESS"

\* The data of the response is missing or is a list: empty, or with a first
\* entry that has or lacks a payment_gateway_url.
ListedDataShape(response_data) ==
    response_data.data.present => response_data.data.value.kind = "array"

\* The first data entry holds a payment_gateway_url that does not decode.
UndecodableUrl(response_data) ==
    /\ response_data.data.present
    /\ response_data.data.value.kind = "array"
    /\ response_data.data.value.items # << >>
    /\ "payment_gateway_url" \in DOMAIN response_data.data.value.items[1]
    /\ response_data.data.value.items[1].payment_gateway_url
           \in {<<"not base64">>, Base64Of(<<"not utf-8">>)}

(* C12: in both create-order routes, whenever the gateway response's       *)
(* result is "SUCCESS" the route returns a success response and never an   *)
(* HTTP error, whatever the shape of the response's data (missing, empty   *)
(* list, first entry without payment_gateway_url, or a URL that is not     *)
(* valid base64), and an undecodable payment_gateway_url is left           *)
(* unchanged.                                                              *)
C12_SuccessIsAnswered ==
    (GatewayAccepted /\ ListedDataShape(route.gateway.value)) =>
        /\ route.answer.kind = "response"
        /\ route.answer.status_code = 200
        /\ UndecodableUrl(route.gateway.value)
               => route.answer.body = route.gateway.value

=============================================================================
